---------------------------- MODULE Spec2Model ----------------------------
(***************************************************************************)
(* cumaea: two blocking prompt functions of src/lib.rs,                    *)
(*   prompt_tf_default(prompt, colored, default) -> bool                   *)
(*   prompt_selection(prompt, list, colored, default) -> String            *)
(* modelled as one call of either function running against a terminal.     *)
(*                                                                         *)
(* Text is a sequence of one-character strings; an ANSI escape sequence    *)
(* is one element.  stdout is the line-buffered std::io::Stdout: print!    *)
(* of text holding no newline only fills the buffer, flush() moves it to   *)
(* the terminal.  stdin delivers, per read_line call, one line including   *)
(* its "\n", or an unterminated last line, or nothing at end of input.     *)
(***************************************************************************)
EXTENDS Naturals, Sequences

VARIABLES
    op,          \* the function called
    prompt,      \* argument `prompt`
    list,        \* argument `list` (prompt_selection)
    colored,     \* argument `colored`: None or Some(Choice)
    default,     \* argument `default`: bool, or &str for prompt_selection
    colorize,    \* environment: whether the colored crate emits escape codes
    pc,          \* control point of the call
    input,       \* the local `input`
    result,      \* the value returned
    panic,       \* the message of the panic that ended the call
    stdout_buf,  \* text printed and not yet flushed
    tty,         \* text flushed to the terminal
    line,        \* history: what the last successful read_line delivered
    writes,      \* history: number of print! executed
    flushes,     \* history: number of successful flush()
    reads,       \* history: number of successful read_line()
    rejected     \* history: number of delivered lines that trim to none of y/n/empty

vars == <<op, prompt, list, colored, default, colorize, pc, input, result,
          panic, stdout_buf, tty, line, writes, flushes, reads, rejected>>

-----------------------------------------------------------------------------
(* Bounds of the model *)

\* a call reads at most MaxReads lines; after that the user types nothing more
MaxReads == 2

\* whitespace characters before and after what the user types on a line
MaxPad == 1

-----------------------------------------------------------------------------
(* Text *)

\* char::is_whitespace, on the characters the model uses
is_whitespace(c) == c \in {" ", "\t", "\n", "\r"}

RECURSIVE trim_start(_)
trim_start(s) ==
    IF s = <<>> THEN s
    ELSE IF is_whitespace(Head(s)) THEN trim_start(Tail(s)) ELSE s

RECURSIVE trim_end(_)
trim_end(s) ==
    IF s = <<>> THEN s
    ELSE IF is_whitespace(s[Len(s)]) THEN trim_end(SubSeq(s, 1, Len(s) - 1)) ELSE s

\* str::trim
trim(s) == trim_end(trim_start(s))

\* u8::to_ascii_lowercase, on the characters the model uses
to_ascii_lowercase(c) ==
    CASE c = "Y" -> "y"
      [] c = "N" -> "n"
      [] OTHER -> c

\* str::eq_ignore_ascii_case
eq_ignore_ascii_case(a, b) ==
    /\ Len(a) = Len(b)
    /\ \A i \in 1..Len(a) : to_ascii_lowercase(a[i]) = to_ascii_lowercase(b[i])

is_empty(s) == Len(s) = 0

-----------------------------------------------------------------------------
(* Styling: enum ChoiceColor, enum Choice and the colored crate *)

ChoiceColor == {"Black", "Red", "Green", "Yellow", "Blue", "Magenta", "Cyan", "White"}

ChoiceVariant == {"Normal", "On", "Bright", "OnBright"}

None == [some |-> FALSE]

Some(v, c) == [some |-> TRUE, variant |-> v, color |-> c]

Choice == {Some(v, c) : v \in ChoiceVariant, c \in ChoiceColor}

\* the escape sequence each arm of the colour dispatch opens the text with
Normal ==
    [Black |-> "ESC[30m", Red |-> "ESC[31m", Green |-> "ESC[32m", Yellow |-> "ESC[33m",
     Blue |-> "ESC[34m", Magenta |-> "ESC[35m", Cyan |-> "ESC[36m", White |-> "ESC[37m"]

On ==
    [Black |-> "ESC[40m", Red |-> "ESC[41m", Green |-> "ESC[42m", Yellow |-> "ESC[43m",
     Blue |-> "ESC[44m", Magenta |-> "ESC[45m", Cyan |-> "ESC[46m", White |-> "ESC[47m"]

Bright ==
    [Black |-> "ESC[90m", Red |-> "ESC[91m", Green |-> "ESC[92m", Yellow |-> "ESC[93m",
     Blue |-> "ESC[94m", Magenta |-> "ESC[95m", Cyan |-> "ESC[96m", White |-> "ESC[97m"]

OnBright ==
    [Black |-> "ESC[100m", Red |-> "ESC[101m", Green |-> "ESC[102m", Yellow |-> "ESC[103m",
     Blue |-> "ESC[104m", Magenta |-> "ESC[105m", Cyan |-> "ESC[106m", White |-> "ESC[107m"]

Reset == "ESC[0m"

style_code(color_choice) ==
    CASE color_choice.variant = "Normal" -> Normal[color_choice.color]
      [] color_choice.variant = "On" -> On[color_choice.color]
      [] color_choice.variant = "Bright" -> Bright[color_choice.color]
      [] color_choice.variant = "OnBright" -> OnBright[color_choice.color]

\* Display of a ColoredString: the text between its style and a reset, or
\* the bare text when colouring is switched off in the environment
styled(text, color_choice) ==
    IF colorize THEN <<style_code(color_choice)>> \o text \o <<Reset>> ELSE text

\* what print! writes in prompt_tf_default
tf_output ==
    IF colored.some THEN styled(prompt, colored) ELSE trim(prompt)

\* what print! writes in prompt_selection: "{}: [{}]: "
selection_output ==
    IF colored.some
    THEN prompt \o <<":", " ", "[">> \o styled(list, colored) \o <<"]", ":", " ">>
    ELSE trim(prompt) \o <<":", " ", "[">> \o trim(list) \o <<"]", ":", " ">>

-----------------------------------------------------------------------------
(* The inputs of a call and of the terminal *)

\* prompt and list texts: plain, and with leading and trailing whitespace
Texts == {<<"?">>, <<" ", "?", " ">>}

\* defaults of prompt_selection: plain, and with whitespace and lower case
Defaults == {<<"D">>, <<" ", "d", " ">>}

\* what the user types between the whitespace around it
Cores ==
    {<<>>, <<"y">>, <<"Y">>, <<"n">>, <<"N">>, <<"x">>, <<"y", "e", "s">>,
     <<"y", " ", "n">>}

Pad(n) == [i \in 1..n |-> " "]

\* what one read_line call can append to `input`: a line with its "\n",
\* or a last line that end of input cuts short
Lines ==
    {Pad(l) \o c \o Pad(r) \o e :
        l \in 0..MaxPad, r \in 0..MaxPad, c \in Cores, e \in {<<"\n">>, <<>>}} \ {<<>>}

\* read_line returning Ok(0): nothing is appended
EndOfInput == <<>>

\* stdin is exhausted once a read has delivered nothing or an unterminated line
AtEndOfInput == reads > 0 /\ (line = <<>> \/ line[Len(line)] # "\n")

Deliverable == IF AtEndOfInput THEN {EndOfInput} ELSE Lines \cup {EndOfInput}

\* the forms the loop of prompt_tf_default is documented to accept
Accepted == {<<"y">>, <<"Y">>, <<"n">>, <<"N">>, <<>>}

NoResult == "none"

NoPanic == "none"

-----------------------------------------------------------------------------
(* The call *)

Init ==
    /\ op \in {"prompt_tf_default", "prompt_selection"}
    /\ prompt \in Texts
    /\ list \in (IF op = "prompt_selection" THEN Texts ELSE {<<>>})
    /\ colored \in {None} \cup Choice
    /\ default \in (IF op = "prompt_selection" THEN Defaults ELSE BOOLEAN)
    /\ colorize \in BOOLEAN
    /\ pc = "print"
    /\ input = <<>>
    /\ result = NoResult
    /\ panic = NoPanic
    /\ stdout_buf = <<>>
    /\ tty = <<>>
    /\ line = <<>>
    /\ writes = 0
    /\ flushes = 0
    /\ reads = 0
    /\ rejected = 0

args == <<op, prompt, list, colored, default, colorize>>

PrintPromptSkipFlush ==
    /\ pc = "print"
    /\ stdout_buf' = stdout_buf \o
           (IF op = "prompt_tf_default" THEN tf_output ELSE selection_output)
    /\ writes' = writes + 1
    /\ pc' = "read"
    /\ UNCHANGED <<args, input, result, panic, tty, line, flushes, reads, rejected>>

\* print!(...) of the prompt: the match over `colored`
PrintPrompt ==
    /\ pc = "print"
    /\ stdout_buf' = stdout_buf \o
           (IF op = "prompt_tf_default" THEN tf_output ELSE selection_output)
    /\ writes' = writes + 1
    /\ pc' = "flush"
    /\ UNCHANGED <<args, input, result, panic, tty, line, flushes, reads, rejected>>

\* stdout().flush() returning Ok
Flush ==
    /\ pc = "flush"
    /\ tty' = tty \o stdout_buf
    /\ stdout_buf' = <<>>
    /\ flushes' = flushes + 1
    /\ pc' = "read"
    /\ UNCHANGED <<args, input, result, panic, line, writes, reads, rejected>>

FlushFailSwallowed ==
    /\ pc = "flush"
    /\ pc' = "read"
    /\ UNCHANGED <<args, input, result, panic, stdout_buf, tty, line, writes,
                   flushes, reads, rejected>>

\* stdout().flush() returning Err: .expect("Flushing line failed.") panics
FlushFail ==
    /\ pc = "flush"
    /\ pc' = "panicked"
    /\ panic' = "Flushing line failed."
    /\ UNCHANGED <<args, input, result, stdout_buf, tty, line, writes, flushes,
                   reads, rejected>>

ReadLineEofIsError ==
    /\ pc = "read"
    /\ reads < MaxReads
    /\ \E l \in Deliverable :
          /\ input' = l
          /\ line' = l
          /\ rejected' = IF trim(l) \in Accepted THEN rejected ELSE rejected + 1
          /\ pc' = IF l = EndOfInput THEN "panicked"
                   ELSE IF op = "prompt_tf_default" THEN "trim" ELSE "return"
          /\ panic' = IF l = EndOfInput THEN "Failed to read line." ELSE panic
    /\ reads' = reads + 1
    /\ UNCHANGED <<args, result, stdout_buf, tty, writes, flushes>>

\* input.clear(); stdin().read_line(&mut input) returning Ok
ReadLine ==
    /\ pc = "read"
    /\ reads < MaxReads
    /\ \E l \in Deliverable :
          /\ input' = l
          /\ line' = l
          /\ rejected' = IF trim(l) \in Accepted THEN rejected ELSE rejected + 1
    /\ reads' = reads + 1
    /\ pc' = IF op = "prompt_tf_default" THEN "trim" ELSE "return"
    /\ UNCHANGED <<args, result, panic, stdout_buf, tty, writes, flushes>>

\* read_line returning Err: .expect("Failed to read line.") panics
ReadLineFail ==
    /\ pc = "read"
    /\ input' = <<>>
    /\ pc' = "panicked"
    /\ panic' = "Failed to read line."
    /\ UNCHANGED <<args, result, stdout_buf, tty, line, writes, flushes, reads,
                   rejected>>

is_valid_any_char(s) == Len(s) <= 1

is_valid_nonempty(s) ==
    eq_ignore_ascii_case(s, <<"y">>) \/ eq_ignore_ascii_case(s, <<"n">>)

\* the condition of the loop's break
is_valid(s) ==
    eq_ignore_ascii_case(s, <<"y">>) \/ eq_ignore_ascii_case(s, <<"n">>) \/ is_empty(s)

TrimInputNoBreak ==
    /\ op = "prompt_tf_default"
    /\ pc = "trim"
    /\ input' = trim(input)
    /\ pc' = "print"
    /\ UNCHANGED <<args, result, panic, stdout_buf, tty, line, writes, flushes,
                   reads, rejected>>

\* input = input.trim().to_string(); break on valid input, else loop
TrimInput ==
    /\ op = "prompt_tf_default"
    /\ pc = "trim"
    /\ input' = trim(input)
    /\ pc' = IF is_valid(input') THEN "match" ELSE "print"
    /\ UNCHANGED <<args, result, panic, stdout_buf, tty, line, writes, flushes,
                   reads, rejected>>

match_arm_lowercase_only(s) ==
    CASE s = <<"y">> -> "true"
      [] s = <<"n">> -> "false"
      [] OTHER -> "default"

\* the arm of the final match that `input` selects
match_arm(s) ==
    CASE s \in {<<"Y">>, <<"y">>} -> "true"
      [] s \in {<<"N">>, <<"n">>} -> "false"
      [] OTHER -> "default"

\* match input.as_str() { ... }
Match ==
    /\ op = "prompt_tf_default"
    /\ pc = "match"
    /\ result' = CASE match_arm(input) = "true" -> TRUE
                   [] match_arm(input) = "false" -> FALSE
                   [] OTHER -> default
    /\ pc' = "returned"
    /\ UNCHANGED <<args, input, panic, stdout_buf, tty, line, writes, flushes,
                   reads, rejected>>

selection_value_trimmed_default(s, d) ==
    IF is_empty(trim(s)) THEN trim(d) ELSE trim(s)

\* if input.trim().is_empty() { default.to_string() } else { input.trim().to_string() }
selection_value(s, d) ==
    IF is_empty(trim(s)) THEN d ELSE trim(s)

ReturnSelectionRetryEmpty ==
    /\ op = "prompt_selection"
    /\ pc = "return"
    /\ IF is_empty(trim(input))
       THEN /\ pc' = "print"
            /\ UNCHANGED result
       ELSE /\ pc' = "returned"
            /\ result' = selection_value(input, default)
    /\ UNCHANGED <<args, input, panic, stdout_buf, tty, line, writes, flushes,
                   reads, rejected>>

\* the tail expression of prompt_selection
ReturnSelection ==
    /\ op = "prompt_selection"
    /\ pc = "return"
    /\ result' = selection_value(input, default)
    /\ pc' = "returned"
    /\ UNCHANGED <<args, input, panic, stdout_buf, tty, line, writes, flushes,
                   reads, rejected>>

Next ==
    \/ PrintPrompt
    \/ Flush
    \/ FlushFail
    \/ ReadLine
    \/ ReadLineFail
    \/ TrimInput
    \/ Match
    \/ ReturnSelection

Spec == Init /\ [][Next]_vars

\* the call is one thread running to completion: a step that can be taken is taken
LiveSpec == Init /\ [][Next]_vars /\ WF_vars(Next)

-----------------------------------------------------------------------------
(* Properties *)

Yes == {<<"y">>, <<"Y">>}

No == {<<"n">>, <<"N">>}

RECURSIVE Repeat(_, _)
Repeat(text, n) == IF n = 0 THEN <<>> ELSE text \o Repeat(text, n - 1)

EscapeCodes ==
    {Normal[c] : c \in ChoiceColor} \cup {On[c] : c \in ChoiceColor}
        \cup {Bright[c] : c \in ChoiceColor} \cup {OnBright[c] : c \in ChoiceColor}
        \cup {Reset}

IsText(c) == c \notin EscapeCodes

\* C1: when prompt_tf_default returns, the last line read is the first line
\* read that trims to y, Y, n, N or nothing (every line before it was
\* rejected), and the value returned is true for y/Y, false for n/N whatever
\* the default, and the default for the empty line.
C1_ResultFromFirstAcceptedLine ==
    (op = "prompt_tf_default" /\ pc = "returned") =>
        /\ trim(line) \in Accepted
        /\ rejected = reads - 1
        /\ trim(line) \in Yes => result = TRUE
        /\ trim(line) \in No => result = FALSE
        /\ trim(line) = <<>> => result = default

C1_Witness ==
    /\ op = "prompt_tf_default"
    /\ pc = "returned"
    /\ rejected = 1
    /\ line = <<" ", "N", " ", "\n">>
    /\ default = TRUE
    /\ result = FALSE

\* C2: prompt_tf_default never emits more prompts than rejected lines plus
\* one, and when it returns the number of prompt emissions is exactly the
\* number of rejected lines plus one and equals the number of lines read.
C2_OnePromptPerRejectedLine ==
    op = "prompt_tf_default" =>
        /\ writes <= rejected + 1
        /\ pc = "returned" => (writes = rejected + 1 /\ reads = writes)

C2_Witness ==
    /\ op = "prompt_tf_default"
    /\ pc = "returned"
    /\ rejected = 1
    /\ writes = 2
    /\ reads = 2

\* C3: in both functions, whenever the call leaves the point where it reads a
\* line (a line is read, or the read fails), the prompt of this attempt has
\* been written and flushed: nothing is left in the buffer, the terminal ends
\* with the prompt, and one write and one successful flush have happened
\* since the previous read.
C3_WriteFlushBeforeRead ==
    [][(pc = "read" /\ pc' # "read") =>
          LET out == IF op = "prompt_tf_default" THEN tf_output ELSE selection_output
          IN  /\ stdout_buf = <<>>
              /\ writes = reads + 1
              /\ flushes = writes
              /\ Len(tty) >= Len(out)
              /\ SubSeq(tty, Len(tty) - Len(out) + 1, Len(tty)) = out]_vars

C3_Witness ==
    /\ pc = "trim"
    /\ reads = 2
    /\ flushes = 2
    /\ writes = 2
    /\ stdout_buf = <<>>

\* C4: prompt_selection returns the default exactly as given when the line
\* read trims to nothing, and the trimmed line otherwise.
C4_SelectionResult ==
    (op = "prompt_selection" /\ pc = "returned") =>
        result = (IF trim(line) = <<>> THEN default ELSE trim(line))

C4_Witness ==
    /\ op = "prompt_selection"
    /\ pc = "returned"
    /\ line = <<" ", " ", "\n">>
    /\ default = <<" ", "d", " ">>
    /\ result = <<" ", "d", " ">>
    /\ list = <<"?">>

\* C5: a call of prompt_selection writes, flushes and reads at most once, and
\* has done each exactly once when it returns, whatever the line holds.
C5_SingleAttempt ==
    op = "prompt_selection" =>
        /\ writes <= 1
        /\ flushes <= 1
        /\ reads <= 1
        /\ pc = "returned" => (writes = 1 /\ flushes = 1 /\ reads = 1)

C5_Witness ==
    /\ op = "prompt_selection"
    /\ pc = "returned"
    /\ trim(line) = <<>>
    /\ line # <<>>
    /\ reads = 1
    /\ writes = 1

\* C6: in both functions no line is read without a successful flush of its
\* prompt, so none is read after a failed flush; a call that panicked did so
\* with the message of the flush or of the read, has no result, and takes no
\* further step.
C6_IoFailureIsFatal ==
    /\ [](/\ reads <= flushes
          /\ flushes <= writes
          /\ pc = "panicked" =>
                /\ result = NoResult
                /\ panic \in {"Flushing line failed.", "Failed to read line."}
                /\ panic = "Flushing line failed." => (flushes = writes - 1 /\ reads = flushes)
                /\ panic = "Failed to read line." => (flushes = writes /\ reads = flushes - 1)
          /\ pc # "panicked" => panic = NoPanic)
    /\ [][pc = "panicked" => UNCHANGED vars]_vars

C6_Witness ==
    /\ pc = "panicked"
    /\ panic = "Flushing line failed."
    /\ reads = 1
    /\ writes = 2
    /\ result = NoResult

\* C7: everything prompt_tf_default has printed is, once the colour codes are
\* taken out, the prompt text exactly as given, once per emission.
C7_PromptAsGiven ==
    op = "prompt_tf_default" =>
        SelectSeq(tty \o stdout_buf, IsText) = Repeat(prompt, writes)

\* C8: once prompt_tf_default has left its read loop, `input` is one of y,
\* Y, n, N and the empty string, and the fallback arm of the final match is
\* selected only by the empty string.
C8_LoopExitInvariant ==
    (op = "prompt_tf_default" /\ pc \in {"match", "returned"}) =>
        /\ input \in Accepted
        /\ match_arm(input) = "default" => input = <<>>

C8_Witness ==
    /\ op = "prompt_tf_default"
    /\ pc = "match"
    /\ input = <<>>
    /\ line = <<" ", "\n">>
    /\ rejected = 1

\* C9: in prompt_tf_default, once a line that trims to y, Y, n, N or nothing
\* has been read the call eventually returns, and the call has not returned
\* as long as every line read was rejected.
C9_ReturnsOnAcceptedLineOnly ==
    /\ [](op = "prompt_tf_default" /\ pc = "trim" /\ trim(input) \in Accepted
             => <>(pc = "returned"))
    /\ []((op = "prompt_tf_default" /\ pc = "returned") => rejected < reads)

C9_Witness ==
    /\ op = "prompt_tf_default"
    /\ pc = "returned"
    /\ rejected = 1
    /\ reads = 2
    /\ trim(line) = <<"y">>

\* C10: a read that delivers nothing (end of input) is no failure: the call
\* does not panic and does not prompt again, and returns its default,
\* in prompt_tf_default also after rejected lines.
C10_EndOfInputIsEmptyLine ==
    (reads > 0 /\ line = EndOfInput) =>
        /\ panic = NoPanic
        /\ pc \in (IF op = "prompt_tf_default"
                   THEN {"trim", "match", "returned"} ELSE {"return", "returned"})
        /\ pc = "returned" => result = default

C10_Witness ==
    /\ op = "prompt_tf_default"
    /\ pc = "returned"
    /\ reads = 2
    /\ rejected = 1
    /\ line = EndOfInput
    /\ result = default

=============================================================================
